---- MODULE Spec2Model ----
(***************************************************************************)
(* calpal: iCalendar value grammar, recurrence descriptor builder,         *)
(* timezone model and event time-range resolver.                           *)
(*                                                                         *)
(* Instants (NaiveDateTime, DateTime<Utc>) are seconds counted from        *)
(* 2024-01-01T00:00:00; dates (NaiveDate) are days counted from            *)
(* 2024-01-01; durations and offsets are seconds.                          *)
(*                                                                         *)
(* A property value (a String) is the sequence of its '/'-separated        *)
(* segments; a segment is a lexical token [shape, n, z]: the grammar rule  *)
(* its characters match, the number they denote and whether a 'Z' ends it. *)
(* Names (a TZID value, a parameter value) are the strings themselves.     *)
(***************************************************************************)
EXTENDS Integers, Sequences, FiniteSets, TLC

VARIABLES timezone_map, op, input, result, prior

\* prior: an earlier get_time_range call the caller has kept, with its outcome
vars == <<timezone_map, op, input, result, prior>>

\* ------------------------------------------------------------------ bounds
MaxTransitions == 2
MaxFragments == 3

\* --------------------------------------------------------------- constants
SecondsPerDay == 86400
SecondsPerHour == 3600

Day(n) == n * SecondsPerDay
Hours(n) == n * SecondsPerHour

\* ----------------------------------------------------- Option and Result
None == [kind |-> "None"]
Some(x) == [kind |-> "Some", v |-> x]

Ok(x) == [kind |-> "Ok", v |-> x]
Err(e) == [kind |-> "Err", e |-> e]
\* a panic (unwrap on None / Err, index out of bounds): the call unwinds
Panic == [kind |-> "Panic"]

SeqsUpTo(S, n) == UNION {[1..k -> S] : k \in 0..n}

\* ------------------------------------------------------------ text tokens
Tok(shape, n, z) == [shape |-> shape, n |-> n, z |-> z]

DateText(d) == <<Tok("date", d, FALSE)>>
DateTimeText(s, z) == <<Tok("date_time", s, z)>>
DurationText(s) == <<Tok("duration", s, FALSE)>>
\* a duration whose digit run does not fit i64
WideDurationText == <<Tok("duration_wide", 0, FALSE)>>
UtcOffsetText(s) == <<Tok("utc_offset", s, FALSE)>>
RRuleText(s) == <<Tok("rrule", s, FALSE)>>
JunkText == <<Tok("junk", 0, FALSE)>>

\* ------------------------------------------------------------- properties
Param(name, values) == [name |-> name, values |-> values]
Property(name, value, params) == [name |-> name, value |-> value, params |-> params]

\* ------------------------------------------------------ ical_type_parser
\* a pub rule matches the whole input or fails
date(text) ==
    IF Len(text) = 1 /\ text[1].shape = "date" THEN Ok(text[1].n) ELSE Err("parse")

Utc(t) == [tag |-> "Utc", date_time |-> t, tzid |-> ""]
Floating(t) == [tag |-> "Floating", date_time |-> t, tzid |-> ""]
TimeZone(t, tzid) == [tag |-> "TimeZone", date_time |-> t, tzid |-> tzid]

date_time(text) ==
    IF Len(text) = 1 /\ text[1].shape = "date_time"
    THEN Ok(IF text[1].z THEN Utc(text[1].n) ELSE Floating(text[1].n))
    ELSE Err("parse")

duration(text) ==
    IF Len(text) = 1 /\ text[1].shape = "duration" THEN Ok(text[1].n)
    ELSE IF Len(text) = 1 /\ text[1].shape = "duration_wide" THEN Panic
    ELSE Err("parse")

utc_offset(text) ==
    IF Len(text) = 1 /\ text[1].shape = "utc_offset" THEN Ok(text[1].n) ELSE Err("parse")

\* ---------------------------------------------------------------- timezone
RRuleSet(dt_start, rrule, rdate) == [dt_start |-> dt_start, rrule |-> rrule, rdate |-> rdate]

TimezoneTransition(local_start_time, offset, r_rules) ==
    [local_start_time |-> local_start_time, offset |-> offset, r_rules |-> r_rules]

Timezone(tzid, transitions) == [tzid |-> tzid, transitions |-> transitions]

RECURSIVE offset_loop(_, _, _, _, _)
offset_loop(transitions, time, i, offset, last_update) ==
    IF i > Len(transitions) THEN Ok(offset)
    ELSE LET transition == transitions[i] IN
         IF transition.r_rules.kind = "None" THEN Panic
         ELSE IF time >= transition.local_start_time
                 /\ (last_update.kind = "None"
                     \/ transition.local_start_time > last_update.v)
              THEN offset_loop(transitions, time, i + 1,
                               Some(transition.offset), Some(transition.local_start_time))
              ELSE offset_loop(transitions, time, i + 1, offset, last_update)

\* the local `offset` of offset_time after `ok_or(...)?`
resolved_offset(tz, time) ==
    LET r == offset_loop(tz.transitions, time, 1, None, None) IN
    IF r.kind = "Panic" THEN Panic
    ELSE IF r.v.kind = "None" THEN Err("InvalidTimezone")
    ELSE Ok(r.v.v)

offset_time(tz, time) ==
    LET offset == resolved_offset(tz, time) IN
    IF offset.kind = "Ok" THEN Ok(time + offset.v) ELSE offset

to_utc(tz, time) == offset_time(tz, time)

\* RRuleSetIter: the occurrences not after `time`
rrule_occurrences(r_rules, time) ==
    { d \in UNION { { r_rules.dt_start + k * r_rules.rrule[i] :
                        k \in 0..((time - r_rules.dt_start) \div r_rules.rrule[i]) } :
                    i \in DOMAIN r_rules.rrule }
            \cup { r_rules.rdate[i] : i \in DOMAIN r_rules.rdate } : d <= time }

\* what TimezoneTransitionIter yields up to `time`: the initial anchor, then
\* the recurrence set's occurrences
transition_anchors(transition, time) ==
    { a \in {transition.local_start_time} : a <= time }
    \cup (IF transition.r_rules.kind = "Some"
          THEN rrule_occurrences(transition.r_rules.v, time) ELSE {})

\* ------------------------------------------------------------------ types
RECURSIVE find_param(_, _, _)
find_param(params, name, i) ==
    IF i > Len(params) THEN None
    ELSE IF params[i].name = name THEN Some(params[i])
    ELSE find_param(params, name, i + 1)

\* Ok(None) / Ok(Some(tzid)), or the panic of `.unwrap()` when `find` yields None
get_tzid(property) ==
    IF property.params.kind = "None" THEN Ok(None)
    ELSE LET found == find_param(property.params.v, "TZID", 1) IN
         IF found.kind = "None" THEN Panic
         ELSE IF Len(found.v.values) = 0 THEN Ok(None)
         ELSE Ok(Some(found.v.values[1]))

IcalDate_try_from(property) ==
    IF property.value.kind = "None" THEN Err("TypeDecode(Date)")
    ELSE LET parsed == date(property.value.v) IN
         IF parsed.kind = "Ok" THEN parsed ELSE Err("TypeDecode(Date)")

IcalDateTime_try_from(property) ==
    IF property.value.kind = "None" THEN Err("TypeDecode(DateTime)")
    ELSE LET tzid == get_tzid(property) IN
         IF tzid.kind = "Panic" THEN Panic
         ELSE LET parsed == date_time(property.value.v) IN
              IF parsed.kind # "Ok" THEN Err("TypeDecode(DateTime)")
              ELSE IF parsed.v.tag = "Utc" /\ tzid.v.kind = "None" THEN Ok(parsed.v)
              ELSE IF parsed.v.tag = "Floating" /\ tzid.v.kind = "None" THEN Ok(parsed.v)
              ELSE IF parsed.v.tag = "Floating" /\ tzid.v.kind = "Some"
                   THEN Ok(TimeZone(parsed.v.date_time, tzid.v.v))
              ELSE Err("TypeDecode(DateTime)")

ICalDuration_try_from(property) ==
    IF property.value.kind = "None" THEN Err("TypeDecode(Duration)")
    ELSE LET parsed == duration(property.value.v) IN
         IF parsed.kind = "Err" THEN Err("TypeDecode(Duration)") ELSE parsed

\* split('/') is the segment sequence itself
IcalPeriod_try_from(property) ==
    IF property.value.kind = "None" THEN Err("TypeDecode(Period)")
    ELSE LET parts == property.value.v
             part(i) == Property(property.name, Some(<<parts[i]>>), property.params)
         IN
         IF Len(parts) = 2
         THEN LET start == IcalDateTime_try_from(part(1)) IN
              IF start.kind # "Ok" THEN start
              ELSE LET end == IcalDateTime_try_from(part(2)) IN
                   IF end.kind # "Ok" THEN end
                   ELSE Ok([period |-> "StartEnd", start |-> start.v, end |-> end.v])
         ELSE IF Len(parts) = 1
         THEN LET start == IcalDateTime_try_from(part(1)) IN
              IF start.kind # "Ok" THEN start
              ELSE Panic \* parts[1] on a one-element Vec
         ELSE Err("TypeDecode(Period)")

\* ------------------------------------------------------------ recurrence
\* A recurrence-rule text is [freq, frags]: whether it starts with a valid
\* "FREQ=<unit>", and its ";KEY=value" fragments [key, val, n]; val is the
\* shape of the value text and n the number it denotes.
Frag(key, val, n) == [key |-> key, val |-> val, n |-> n]
RecurText(freq, frags) == [freq |-> freq, frags |-> frags]

BuilderFields ==
    << "limit", "interval", "by_second", "by_minute", "by_hour", "by_day",
       "by_month_day", "by_year_day", "by_week_no", "by_month", "by_set_pos", "wkst" >>

FieldSet == {BuilderFields[i] : i \in DOMAIN BuilderFields}

\* IcalRecurBuilder::default()
DefaultBuilder == [f \in FieldSet |-> None]

\* IcalRecurBuilder { <field>: Some(x), ..Default::default() }
BuilderWith(field, x) == [DefaultBuilder EXCEPT ![field] = Some(x)]

Until(kind, n) == [limit |-> "Until", kind |-> kind, n |-> n]
Count(n) == [limit |-> "Count", kind |-> "", n |-> n]

\* the keyword of each list / weekday field
KeyField ==
    [ k \in { "BYSECOND", "BYMINUTE", "BYHOUR", "BYDAY", "BYMONTHDAY", "BYYEARDAY",
              "BYWEEKNO", "BYMONTH", "BYSETPOS", "WKST" } |->
        CASE k = "BYSECOND" -> "by_second"
          [] k = "BYMINUTE" -> "by_minute"
          [] k = "BYHOUR" -> "by_hour"
          [] k = "BYDAY" -> "by_day"
          [] k = "BYMONTHDAY" -> "by_month_day"
          [] k = "BYYEARDAY" -> "by_year_day"
          [] k = "BYWEEKNO" -> "by_week_no"
          [] k = "BYMONTH" -> "by_month"
          [] k = "BYSETPOS" -> "by_set_pos"
          [] k = "WKST" -> "wkst" ]

Matched(builder, rest) == Ok([builder |-> builder, rest |-> rest])

\* ";UNTIL=" date() / ";UNTIL=" date_time(): the first alternative also matches
\* the leading eight digits of a date-time and leaves its "T..." unread
recur_until(frag) ==
    IF frag.val = "date" THEN Matched(BuilderWith("limit", Until("Date", frag.n)), FALSE)
    ELSE IF frag.val \in {"utc_date_time", "floating_date_time"}
    THEN Matched(BuilderWith("limit", Until("Date", frag.n \div SecondsPerDay)), TRUE)
    ELSE Err("parse")

\* digits+ then `.parse().unwrap()` into u64
recur_count(frag) ==
    IF frag.val = "digits" THEN Matched(BuilderWith("limit", Count(frag.n)), FALSE)
    ELSE IF frag.val = "wide_digits" THEN Panic
    ELSE Err("parse")

recur_interval(frag) ==
    IF frag.val = "digits" THEN Matched(BuilderWith("interval", frag.n), FALSE)
    ELSE IF frag.val = "wide_digits" THEN Panic
    ELSE Err("parse")

\* rules recur_by_second .. recur_wkst
recur_by(frag) ==
    IF frag.val = "list" THEN Matched(BuilderWith(KeyField[frag.key], frag.n), FALSE)
    ELSE Err("parse")

recur_keyword(frag) ==
    IF frag.key = "UNTIL" THEN recur_until(frag)
    ELSE IF frag.key = "COUNT" THEN recur_count(frag)
    ELSE IF frag.key = "INTERVAL" THEN recur_interval(frag)
    ELSE IF frag.key \in DOMAIN KeyField THEN recur_by(frag)
    ELSE Err("parse")

or(a, b) == IF a.kind = "Some" THEN a ELSE b

RECURSIVE merge_from(_, _, _)
merge_from(self, new, i) ==
    IF i > Len(BuilderFields) THEN Ok([f \in FieldSet |-> or(self[f], new[f])])
    ELSE IF self[BuilderFields[i]].kind = "Some" /\ new[BuilderFields[i]].kind = "Some"
    THEN Err("TypeDecode(Recur)")
    ELSE merge_from(self, new, i + 1)

merge(self, new) == merge_from(self, new, 1)

\* inital:recur_keyword() new:recur_builder()? from fragment i on:
\* Ok([builder, pos]) with pos the first fragment not (wholly) consumed
RECURSIVE recur_builder(_, _)
recur_builder(frags, i) ==
    IF i > Len(frags) THEN Err("parse")
    ELSE LET inital == recur_keyword(frags[i]) IN
         IF inital.kind # "Ok" THEN inital
         ELSE IF inital.v.rest THEN Ok([builder |-> inital.v.builder, pos |-> i])
         ELSE LET new == recur_builder(frags, i + 1) IN
              IF new.kind = "Panic" THEN Panic
              ELSE IF new.kind = "Err"
              THEN Ok([builder |-> inital.v.builder, pos |-> i + 1])
              ELSE LET merged == merge(inital.v.builder, new.v.builder) IN
                   IF merged.kind = "Err" THEN Err("Invalid recur")
                   ELSE Ok([builder |-> merged.v, pos |-> new.v.pos])

build(builder, frequency) == [frequency |-> frequency, fields |-> builder]

Frequencies == {"SECONDLY", "MINUTELY", "HOURLY", "DAILY", "WEEKLY", "MONTHLY", "YEARLY"}

\* frequency:recur_frequency() builder:recur_builder()? and the end of input
recur(text) ==
    IF text.freq \notin Frequencies THEN Err("parse")
    ELSE LET parsed == recur_builder(text.frags, 1) IN
         IF parsed.kind = "Panic" THEN Panic
         ELSE LET builder == IF parsed.kind = "Err"
                             THEN [builder |-> DefaultBuilder, pos |-> 1]
                             ELSE parsed.v IN
              IF builder.pos = Len(text.frags) + 1
              THEN Ok(build(builder.builder, text.freq))
              ELSE Err("parse")

IcalRecur_try_from(value) ==
    IF value.kind = "None" THEN Err("TypeDecode(Recur)")
    ELSE LET parsed == recur(value.v) IN
         IF parsed.kind = "Err" THEN Err("TypeDecode(Recur)") ELSE parsed

\* ------------------------------------------------- timezone construction
\* RRule::from_str and RRule::validate of the rrule crate
RRule_from_str(text) ==
    IF Len(text) = 1 /\ text[1].shape \in {"rrule", "rrule_invalid"}
    THEN Ok([interval |-> text[1].n, valid |-> text[1].shape = "rrule"])
    ELSE Err("parse")

\* after the `for prop in value.properties` loop: Ok of the four locals
RECURSIVE transition_props(_, _, _)
transition_props(props, i, acc) ==
    IF i > Len(props) THEN Ok(acc)
    ELSE LET prop == props[i] IN
         IF prop.name = "DTSTART"
         THEN IF prop.value.kind = "None"
              THEN transition_props(props, i + 1, [acc EXCEPT !.local_start_time = None])
              ELSE LET parsed == date_time(prop.value.v) IN
                   IF parsed.kind # "Ok" THEN Panic
                   ELSE transition_props(props, i + 1,
                            [acc EXCEPT !.local_start_time = Some(parsed.v)])
         ELSE IF prop.name = "TZOFFSETTO"
         THEN IF prop.value.kind = "None"
              THEN transition_props(props, i + 1, [acc EXCEPT !.offset = None])
              ELSE LET parsed == utc_offset(prop.value.v) IN
                   IF parsed.kind # "Ok" THEN Panic
                   ELSE transition_props(props, i + 1, [acc EXCEPT !.offset = Some(parsed.v)])
         ELSE IF prop.name = "RRULE"
         THEN IF prop.value.kind = "None" THEN Panic
              ELSE LET rrule == RRule_from_str(prop.value.v) IN
                   IF rrule.kind # "Ok" THEN Err("InvalidTimezone")
                   ELSE transition_props(props, i + 1,
                            [acc EXCEPT !.r_rule_list = Append(@, rrule.v)])
         ELSE IF prop.name = "RDATE"
         THEN IF prop.value.kind = "None" THEN Panic
              ELSE LET rdate == date_time(prop.value.v) IN
                   IF rdate.kind # "Ok" THEN Err("InvalidTimezone")
                   ELSE IF rdate.v.tag = "Floating"
                   THEN transition_props(props, i + 1,
                            [acc EXCEPT !.r_date_list = Append(@, rdate.v.date_time)])
                   ELSE Err("InvalidTimezone")
         ELSE transition_props(props, i + 1, acc)

TimezoneTransition_try_from(value) ==
    LET looped == transition_props(value.properties, 1,
                      [local_start_time |-> None, offset |-> None,
                       r_rule_list |-> <<>>, r_date_list |-> <<>>]) IN
    IF looped.kind # "Ok" THEN looped
    ELSE LET acc == looped.v IN
         IF ~(acc.local_start_time.kind = "Some" /\ acc.local_start_time.v.tag = "Floating")
         THEN Err("InvalidTimezone")
         ELSE IF acc.offset.kind = "None" THEN Err("InvalidTimezone")
         ELSE LET local_start_time == acc.local_start_time.v.date_time IN
              IF Len(acc.r_rule_list) > 0 \/ Len(acc.r_date_list) > 0
              THEN IF \E k \in DOMAIN acc.r_rule_list : ~acc.r_rule_list[k].valid
                   THEN Err("InvalidTimezone")
                   ELSE Ok(TimezoneTransition(local_start_time, acc.offset.v,
                             Some(RRuleSet(local_start_time,
                                    [k \in DOMAIN acc.r_rule_list |->
                                        acc.r_rule_list[k].interval],
                                    acc.r_date_list))))
              ELSE Ok(TimezoneTransition(local_start_time, acc.offset.v, None))

\* the last TZID property's value
RECURSIVE tzid_of(_, _, _)
tzid_of(props, i, tzid) ==
    IF i > Len(props) THEN tzid
    ELSE tzid_of(props, i + 1, IF props[i].name = "TZID" THEN props[i].value ELSE tzid)

\* .map(try_into).collect::<Result<Vec<_>, _>>(): stops at the first Err
RECURSIVE collect_transitions(_, _, _)
collect_transitions(blocks, i, out) ==
    IF i > Len(blocks) THEN Ok(out)
    ELSE LET t == TimezoneTransition_try_from(blocks[i]) IN
         IF t.kind # "Ok" THEN t
         ELSE collect_transitions(blocks, i + 1, Append(out, t.v))

Timezone_try_from(value) ==
    LET tzid == tzid_of(value.properties, 1, None) IN
    IF tzid.kind = "None" THEN Err("InvalidTimezone")
    ELSE LET transitions == collect_transitions(value.transitions, 1, <<>>) IN
         IF transitions.kind # "Ok" THEN transitions
         ELSE Ok(Timezone(tzid.v, transitions.v))

\* ------------------------------------------------------------------ event
DateValue(d) == [tv |-> "Date", date |-> d]
DateTimeValue(dt) == [tv |-> "DateTime", dt |-> dt]

TimeValue_try_from(value) ==
    LET d == IcalDate_try_from(value) IN
    IF d.kind = "Ok" THEN Ok(DateValue(d.v))
    ELSE LET dt == IcalDateTime_try_from(value) IN
         IF dt.kind = "Ok" THEN Ok(DateTimeValue(dt.v)) ELSE dt

DateRange(start, end) == [range |-> "Date", start |-> start, end |-> end]
DateTimeRange(start, end) == [range |-> "DateTime", start |-> start, end |-> end]
FloatingDateTimeRange(start, end) == [range |-> "FloatingDateTime", start |-> start, end |-> end]

RawTiming(start, end, dur) == [start |-> start, end |-> end, duration |-> dur]

\* EventTimeRange::DateTime { start: tz1.to_utc(t1)?, end: tz2.to_utc(t2)? }
utc_range(tz1, t1, tz2, t2) ==
    LET s == to_utc(tz1, t1) IN
    IF s.kind # "Ok" THEN s
    ELSE LET e == to_utc(tz2, t2) IN
         IF e.kind # "Ok" THEN e ELSE Ok(DateTimeRange(s.v, e.v))

\* date_only with the end left at the start
date_only_same_day(start) == Ok(DateRange(start.date, start.date))

\* ( TimeValue::Date(start), None, None )
date_only(start) == Ok(DateRange(start.date, start.date + 1))

\* ( TimeValue::DateTime(start), None, None )
date_time_only(start, tzmap) ==
    IF start.tag = "Utc"
    THEN Ok(DateTimeRange(start.date_time, start.date_time + SecondsPerDay))
    ELSE IF start.tag = "Floating"
    THEN Ok(FloatingDateTimeRange(start.date_time, start.date_time + SecondsPerDay))
    ELSE IF start.tzid \notin DOMAIN tzmap THEN Err("InvalidTimezone")
    ELSE LET timezone == tzmap[start.tzid]
             next_day == (start.date_time \div SecondsPerDay) + 1
             end_date_time == Day(next_day) - 1
         IN  utc_range(timezone, start.date_time, timezone, end_date_time)

\* date_time_end pairing a Utc with a Floating value as if both were Utc
date_time_end_coerced(start, end, tzmap) ==
    IF start.tag \in {"Utc", "Floating"} /\ end.tag \in {"Utc", "Floating"}
    THEN Ok(DateTimeRange(start.date_time, end.date_time))
    ELSE IF start.tag = "TimeZone" /\ end.tag = "TimeZone"
    THEN IF start.tzid \notin DOMAIN tzmap THEN Err("InvalidTimezone")
         ELSE IF end.tzid \notin DOMAIN tzmap THEN Err("InvalidTimezone")
         ELSE utc_range(tzmap[start.tzid], start.date_time,
                        tzmap[end.tzid], end.date_time)
    ELSE Err("InvalidDateTime")

\* ( TimeValue::DateTime(start), Some(TimeValue::DateTime(end)), None )
date_time_end(start, end, tzmap) ==
    IF start.tag = "Utc" /\ end.tag = "Utc"
    THEN Ok(DateTimeRange(start.date_time, end.date_time))
    ELSE IF start.tag = "Floating" /\ end.tag = "Floating"
    THEN Ok(FloatingDateTimeRange(start.date_time, end.date_time))
    ELSE IF start.tag = "TimeZone" /\ end.tag = "TimeZone"
    THEN IF start.tzid \notin DOMAIN tzmap THEN Err("InvalidTimezone")
         ELSE IF end.tzid \notin DOMAIN tzmap THEN Err("InvalidTimezone")
         ELSE utc_range(tzmap[start.tzid], start.date_time,
                        tzmap[end.tzid], end.date_time)
    ELSE Err("InvalidDateTime")

\* ( TimeValue::DateTime(start), None, Some(duration) )
date_time_duration(start, dur, tzmap) ==
    IF start.tag = "Utc"
    THEN Ok(DateTimeRange(start.date_time, start.date_time + dur))
    ELSE IF start.tag = "Floating"
    THEN Ok(FloatingDateTimeRange(start.date_time, start.date_time + dur))
    ELSE IF start.tzid \notin DOMAIN tzmap THEN Err("InvalidTimezone")
    ELSE LET timezone == tzmap[start.tzid] IN
         utc_range(timezone, start.date_time, timezone, start.date_time + dur)

\* match_time_range whose arms do not look at a duration given beside an end
match_time_range_duration_ignored(start, end, dur, tzmap) ==
    IF start.tv = "Date" /\ end.kind = "None" /\ dur.kind = "None"
    THEN date_only(start)
    ELSE IF start.tv = "Date" /\ end.kind = "Some" /\ end.v.tv = "Date"
    THEN Ok(DateRange(start.date, end.v.date))
    ELSE IF start.tv = "DateTime" /\ end.kind = "None" /\ dur.kind = "None"
    THEN date_time_only(start.dt, tzmap)
    ELSE IF start.tv = "DateTime" /\ end.kind = "Some" /\ end.v.tv = "DateTime"
    THEN date_time_end(start.dt, end.v.dt, tzmap)
    ELSE IF start.tv = "DateTime" /\ end.kind = "None" /\ dur.kind = "Some"
    THEN date_time_duration(start.dt, dur.v, tzmap)
    ELSE Err("InvalidTimeRange")

\* match (start, end, duration)
match_time_range(start, end, dur, tzmap) ==
    IF start.tv = "Date" /\ end.kind = "None" /\ dur.kind = "None"
    THEN date_only(start)
    ELSE IF start.tv = "Date" /\ end.kind = "Some" /\ end.v.tv = "Date" /\ dur.kind = "None"
    THEN Ok(DateRange(start.date, end.v.date))
    ELSE IF start.tv = "DateTime" /\ end.kind = "None" /\ dur.kind = "None"
    THEN date_time_only(start.dt, tzmap)
    ELSE IF start.tv = "DateTime" /\ end.kind = "Some" /\ end.v.tv = "DateTime"
            /\ dur.kind = "None"
    THEN date_time_end(start.dt, end.v.dt, tzmap)
    ELSE IF start.tv = "DateTime" /\ end.kind = "None" /\ dur.kind = "Some"
    THEN date_time_duration(start.dt, dur.v, tzmap)
    ELSE Err("InvalidTimeRange")

\* Option<Property>.map(try_from).transpose(): Ok(None), Ok(Some(x)), Err or Panic
transpose(opt, r) ==
    IF opt.kind = "None" THEN Ok(None)
    ELSE IF r.kind = "Ok" THEN Ok(Some(r.v)) ELSE r

get_time_range(self, tzmap) ==
    LET start == TimeValue_try_from(self.start) IN
    IF start.kind # "Ok" THEN start
    ELSE LET end == transpose(self.end,
                        IF self.end.kind = "Some" THEN TimeValue_try_from(self.end.v)
                        ELSE None) IN
         IF end.kind # "Ok" THEN end
         ELSE LET dur == transpose(self.duration,
                             IF self.duration.kind = "Some"
                             THEN ICalDuration_try_from(self.duration.v) ELSE None) IN
              IF dur.kind # "Ok" THEN dur
              ELSE match_time_range(start.v, end.v, dur.v, tzmap)

\* ------------------------------------------------------------ input sets
TZIDs == {"A", "B"}
Anchors == {Day(0), Day(152)}
Offsets == {Hours(1), Hours(2)}
Every == Day(366)
Times == {Day(0 - 31), Day(0), Day(74), Day(152), Day(400), Day(600)}

Recurring(a, o) == TimezoneTransition(a, o, Some(RRuleSet(a, <<Every>>, <<>>)))
Single(a, o) == TimezoneTransition(a, o, None)

Transitions ==
    {Single(a, o) : a \in Anchors, o \in Offsets}
    \cup {Recurring(a, o) : a \in Anchors, o \in Offsets}

Zones == {Timezone("A", ts) : ts \in SeqsUpTo(Transitions, MaxTransitions)}

MapZones ==
    { Timezone("A", <<Recurring(Day(0), Hours(1))>>),
      Timezone("A", <<Recurring(Day(0), Hours(1)), Recurring(Day(152), Hours(2))>>),
      Timezone("A", <<Single(Day(0), Hours(1))>>),
      Timezone("B", <<Recurring(Day(0), Hours(2))>>),
      Timezone("B", <<Single(Day(0), Hours(2))>>) }

Maps ==
    UNION { {m \in [S -> MapZones] : \A k \in S : m[k].tzid = k} : S \in SUBSET TZIDs }

T1 == Day(0) + Hours(9)
T2 == Day(151) + Hours(23)
T3 == Day(1) + Hours(9)

ParamSets ==
    { None,
      Some(<<Param("TZID", <<"A">>)>>),
      Some(<<Param("TZID", <<"B">>)>>),
      Some(<<Param("VALUE", <<"DATE">>)>>),
      Some(<<Param("TZID", <<>>)>>) }

StartValues ==
    { None, Some(DateText(0)), Some(DateTimeText(T1, TRUE)), Some(DateTimeText(T1, FALSE)),
      Some(DateTimeText(T2, FALSE)), Some(JunkText) }

EndValues ==
    { None, Some(DateText(1)), Some(DateTimeText(T3, TRUE)), Some(DateTimeText(T3, FALSE)),
      Some(JunkText) }

DurationValues ==
    { None, Some(DurationText(Hours(1))), Some(DurationText(Hours(2))),
      Some(WideDurationText), Some(JunkText) }

StartProps == {Property("DTSTART", v, p) : v \in StartValues, p \in ParamSets}
EndProps == {Property("DTEND", v, p) : v \in EndValues, p \in ParamSets}
DurationProps == {Property("DURATION", v, None) : v \in DurationValues}

Opt(S) == {None} \cup {Some(x) : x \in S}

PeriodValues ==
    { None,
      Some(DateTimeText(T1, TRUE) \o DateTimeText(T3, TRUE)),
      Some(DateTimeText(T1, FALSE) \o DateTimeText(T3, FALSE)),
      Some(DateTimeText(T1, TRUE) \o DurationText(Hours(1))),
      Some(DateTimeText(T1, FALSE) \o DurationText(Hours(1))),
      Some(DateTimeText(T1, TRUE) \o JunkText),
      Some(DateTimeText(T1, TRUE)),
      Some(JunkText),
      Some(DateTimeText(T1, TRUE) \o DateTimeText(T3, TRUE) \o DurationText(Hours(1))) }

PeriodProps == {Property("RDATE", v, p) : v \in PeriodValues, p \in ParamSets}

\* a transition block: at most one of each property, in this order
OneOf(name, values) == {<<>>} \cup {<<Property(name, v, None)>> : v \in values}

TransitionBlocks ==
    { [properties |-> ds \o off \o rr \o rd] :
        ds \in OneOf("DTSTART", {None, Some(DateTimeText(Day(0), FALSE)),
                                 Some(DateTimeText(Day(152), FALSE)),
                                 Some(DateTimeText(Day(0), TRUE)), Some(DateText(0)),
                                 Some(JunkText)}),
        off \in OneOf("TZOFFSETTO", {None, Some(UtcOffsetText(Hours(1))), Some(JunkText)}),
        rr \in OneOf("RRULE", {None, Some(RRuleText(Every)),
                               Some(<<Tok("rrule_invalid", Every, FALSE)>>), Some(JunkText)}),
        rd \in OneOf("RDATE", {None, Some(DateTimeText(Day(200), FALSE)),
                               Some(DateTimeText(Day(200), TRUE)), Some(JunkText)}) }

Block(ds, off, rr) ==
    [properties |-> ds \o off \o rr]

ZoneBlocks ==
    { Block(<<Property("DTSTART", Some(DateTimeText(Day(0), FALSE)), None)>>,
            <<Property("TZOFFSETTO", Some(UtcOffsetText(Hours(1))), None)>>,
            <<Property("RRULE", Some(RRuleText(Every)), None)>>),
      Block(<<Property("DTSTART", Some(DateTimeText(Day(152), FALSE)), None)>>,
            <<Property("TZOFFSETTO", Some(UtcOffsetText(Hours(2))), None)>>,
            <<>>),
      Block(<<Property("DTSTART", Some(DateTimeText(Day(0), FALSE)), None)>>, <<>>, <<>>),
      Block(<<>>, <<Property("TZOFFSETTO", Some(UtcOffsetText(Hours(1))), None)>>, <<>>),
      Block(<<Property("DTSTART", Some(DateTimeText(Day(0), TRUE)), None)>>,
            <<Property("TZOFFSETTO", Some(UtcOffsetText(Hours(1))), None)>>,
            <<>>),
      Block(<<Property("DTSTART", Some(JunkText), None)>>,
            <<Property("TZOFFSETTO", Some(UtcOffsetText(Hours(1))), None)>>,
            <<>>) }

IcalTimeZones ==
    { [properties |-> ps, transitions |-> bs] :
        ps \in {<<>>, <<Property("TZID", Some("A"), None)>>, <<Property("TZID", None, None)>>},
        bs \in SeqsUpTo(ZoneBlocks, MaxTransitions) }

RecurFrags ==
    { Frag("UNTIL", "date", 1), Frag("UNTIL", "utc_date_time", Day(1)),
      Frag("UNTIL", "floating_date_time", Day(1)),
      Frag("COUNT", "digits", 5), Frag("COUNT", "digits", 3), Frag("COUNT", "wide_digits", 0),
      Frag("INTERVAL", "digits", 2), Frag("BYDAY", "bad", 0) }
    \cup {Frag(k, "list", 1) : k \in DOMAIN KeyField}

RecurValues ==
    {None} \cup {Some(RecurText(f, frags)) :
                    f \in {"DAILY", "bad"}, frags \in SeqsUpTo(RecurFrags, MaxFragments)}

\* ---------------------------------------------------------------- actions
Init ==
    /\ timezone_map \in Maps
    /\ op = "idle"
    /\ input = <<>>
    /\ result = None
    /\ prior = None

OffsetTime ==
    /\ op = "idle"
    /\ \E tz \in Zones, time \in Times :
        /\ op' = "offset_time"
        /\ input' = [tz |-> tz, time |-> time]
        /\ result' = offset_time(tz, time)
        /\ UNCHANGED <<timezone_map, prior>>

ToUtc ==
    /\ op = "idle"
    /\ \E tz \in Zones, time \in Times :
        /\ op' = "to_utc"
        /\ input' = [tz |-> tz, time |-> time]
        /\ result' = to_utc(tz, time)
        /\ UNCHANGED <<timezone_map, prior>>

\* get_time_range taking the start's timezone out of the map it looks it up in
GetTimeRangeOf_taking(starts, ends, durs) ==
    /\ op = "idle"
    /\ \E start \in starts, end \in ends, dur \in durs :
        /\ op' = "get_time_range"
        /\ input' = RawTiming(start, end, dur)
        /\ result' = get_time_range(RawTiming(start, end, dur), timezone_map)
        /\ timezone_map' =
                LET tzid == get_tzid(start)
                    taken == IF tzid.kind = "Ok" /\ tzid.v.kind = "Some"
                             THEN {tzid.v.v} ELSE {}
                IN  [k \in DOMAIN timezone_map \ taken |-> timezone_map[k]]
        /\ UNCHANGED prior

\* get_time_range(&self, timezone_map: &TimezoneMap) on a start, an end and a
\* duration of the given sets
GetTimeRangeOf(starts, ends, durs) ==
    /\ op = "idle"
    /\ \E start \in starts, end \in ends, dur \in durs :
        /\ op' = "get_time_range"
        /\ input' = RawTiming(start, end, dur)
        /\ result' = get_time_range(RawTiming(start, end, dur), timezone_map)
        /\ UNCHANGED <<timezone_map, prior>>

GetTimeRange == GetTimeRangeOf(StartProps, Opt(EndProps), Opt(DurationProps))

ParseDateTime ==
    /\ op = "idle"
    /\ \E property \in StartProps :
        /\ op' = "date_time"
        /\ input' = property
        /\ result' = IcalDateTime_try_from(property)
        /\ UNCHANGED <<timezone_map, prior>>

ParsePeriod ==
    /\ op = "idle"
    /\ \E property \in PeriodProps :
        /\ op' = "period"
        /\ input' = property
        /\ result' = IcalPeriod_try_from(property)
        /\ UNCHANGED <<timezone_map, prior>>

BuildTransition ==
    /\ op = "idle"
    /\ \E value \in TransitionBlocks :
        /\ op' = "transition"
        /\ input' = value
        /\ result' = TimezoneTransition_try_from(value)
        /\ UNCHANGED <<timezone_map, prior>>

BuildTimezone ==
    /\ op = "idle"
    /\ \E value \in IcalTimeZones :
        /\ op' = "timezone"
        /\ input' = value
        /\ result' = Timezone_try_from(value)
        /\ UNCHANGED <<timezone_map, prior>>

ParseRecur ==
    /\ op = "idle"
    /\ \E value \in RecurValues :
        /\ op' = "recur"
        /\ input' = value
        /\ result' = IcalRecur_try_from(value)
        /\ UNCHANGED <<timezone_map, prior>>

\* the caller takes the result; the next call starts from idle
Return ==
    /\ op # "idle"
    /\ op' = "idle"
    /\ input' = <<>>
    /\ result' = None
    /\ UNCHANGED <<timezone_map, prior>>

Next ==
    \/ OffsetTime
    \/ ToUtc
    \/ GetTimeRange
    \/ ParseDateTime
    \/ ParsePeriod
    \/ BuildTransition
    \/ BuildTimezone
    \/ Return

Spec == Init /\ [][Next]_vars

\* the same event resolved again: the calls a caller repeats, between which
\* it may keep an outcome
RepeatedStarts ==
    { Property("DTSTART", Some(DateTimeText(T1, FALSE)), Some(<<Param("TZID", <<"A">>)>>)),
      Property("DTSTART", Some(DateTimeText(T2, FALSE)), Some(<<Param("TZID", <<"B">>)>>)),
      Property("DTSTART", Some(DateTimeText(T1, TRUE)), None),
      Property("DTSTART", Some(DateTimeText(T1, FALSE)), Some(<<Param("VALUE", <<"DATE">>)>>)) }

RepeatedEnds ==
    { None,
      Some(Property("DTEND", Some(DateTimeText(T3, FALSE)), Some(<<Param("TZID", <<"B">>)>>))) }

RepeatedDurations == {None, Some(Property("DURATION", Some(DurationText(Hours(1))), None))}

GetTimeRangeAgain == GetTimeRangeOf(RepeatedStarts, RepeatedEnds, RepeatedDurations)

\* the caller takes the result of a get_time_range call and keeps it
Keep ==
    /\ op = "get_time_range"
    /\ prior' = Some([input |-> input, result |-> result])
    /\ op' = "idle"
    /\ input' = <<>>
    /\ result' = None
    /\ UNCHANGED timezone_map

NextAgain == GetTimeRangeAgain \/ Keep \/ Return

SpecAgain == Init /\ [][NextAgain]_vars

\* the recurrence grammar alone, with no timezone declared
InitRecur ==
    /\ timezone_map = <<>>
    /\ op = "idle"
    /\ input = <<>>
    /\ result = None
    /\ prior = None

NextRecur == ParseRecur \/ Return

SpecRecur == InitRecur /\ [][NextRecur]_vars

\* ------------------------------------------------------------- properties
\* every anchor of the timezone not after `time`
AnchorsUpTo(tz, time) ==
    UNION {transition_anchors(tz.transitions[i], time) : i \in DOMAIN tz.transitions}

Latest(S) == CHOOSE a \in S : \A b \in S : b <= a

\* the transitions owning the latest anchor not after `time`
Owners(tz, time) ==
    { i \in DOMAIN tz.transitions :
        Latest(AnchorsUpTo(tz, time)) \in transition_anchors(tz.transitions[i], time) }

\* the offset section 4.3 resolves: latest anchor, the later listed on a tie
ResolveOffset(tz, time) ==
    tz.transitions[CHOOSE i \in Owners(tz, time) : \A j \in Owners(tz, time) : j <= i].offset

AllSingle(tz) == \A i \in DOMAIN tz.transitions : tz.transitions[i].r_rules.kind = "None"
AllRecurring(tz) == \A i \in DOMAIN tz.transitions : tz.transitions[i].r_rules.kind = "Some"

\* the call returned `time` moved by the offset o
ShiftedBy(o) == result.kind = "Ok" /\ result.v \in {input.time - o, input.time + o}

FailsWith(e) == result.kind = "Err" /\ result.e = e

\* C1: with only non-recurring transitions, resolving T applies the offset of
\* the transition with the greatest anchor not after T.
C1_LatestApplicable ==
    (op = "offset_time" /\ AllSingle(input.tz) /\ AnchorsUpTo(input.tz, input.time) # {})
        => \E i \in Owners(input.tz, input.time) : ShiftedBy(input.tz.transitions[i].offset)

\* C2: resolving a time that precedes every anchor of the timezone (or a
\* timezone without transitions) fails with InvalidTimezone.
C2_BeforeEveryTransition ==
    (op \in {"offset_time", "to_utc"} /\ AnchorsUpTo(input.tz, input.time) = {})
        => FailsWith("InvalidTimezone")

\* C3: to_utc of a local time L whose resolved offset is O is the instant L - O.
C3_LocalMinusOffset ==
    (op = "to_utc" /\ resolved_offset(input.tz, input.time).kind = "Ok")
        => /\ result.kind = "Ok"
           /\ result.v = input.time - resolved_offset(input.tz, input.time).v

\* C4: with recurring transitions, resolving T applies the offset of the
\* transition owning the latest anchor not after T among all anchors, the
\* recurrence-generated ones included.
C4_RecurrenceAnchors ==
    (op = "offset_time" /\ AllRecurring(input.tz)
        /\ AnchorsUpTo(input.tz, input.time) # {})
        => \E i \in Owners(input.tz, input.time) : ShiftedBy(input.tz.transitions[i].offset)

\* C5: every parsing, construction and resolution call returns a value or an
\* error kind; none panics.
C5_Total == result.kind # "Panic"

\* the typed start, end and duration of a get_time_range call
StartOf == TimeValue_try_from(input.start)
EndOf ==
    transpose(input.end,
              IF input.end.kind = "Some" THEN TimeValue_try_from(input.end.v) ELSE None)
DurationOf ==
    transpose(input.duration,
              IF input.duration.kind = "Some" THEN ICalDuration_try_from(input.duration.v)
              ELSE None)

Decoded ==
    /\ op = "get_time_range"
    /\ StartOf.kind = "Ok"
    /\ EndOf.kind = "Ok"
    /\ DurationOf.kind = "Ok"

IsDateTime(tv, tag) == tv.tv = "DateTime" /\ tv.dt.tag = tag

\* C6: with neither end nor duration, a Date, Utc or Floating start yields the
\* range of its kind from the start to the start plus one day.
C6_DefaultOneDay ==
    (Decoded /\ EndOf.v.kind = "None" /\ DurationOf.v.kind = "None")
        => LET s == StartOf.v IN
           /\ s.tv = "Date" => result = Ok(DateRange(s.date, s.date + 1))
           /\ IsDateTime(s, "Utc")
                => result = Ok(DateTimeRange(s.dt.date_time, s.dt.date_time + SecondsPerDay))
           /\ IsDateTime(s, "Floating")
                => result = Ok(FloatingDateTimeRange(s.dt.date_time,
                                                     s.dt.date_time + SecondsPerDay))

C6_Witness ==
    /\ Decoded /\ EndOf.v.kind = "None" /\ DurationOf.v.kind = "None"
    /\ IsDateTime(StartOf.v, "Utc")
    /\ result = Ok(DateTimeRange(T1, T1 + SecondsPerDay))

\* the combinations the table does not list
Unlisted ==
    \/ EndOf.v.kind = "Some" /\ DurationOf.v.kind = "Some"
    \/ StartOf.v.tv = "Date" /\ DurationOf.v.kind = "Some"
    \/ StartOf.v.tv = "Date" /\ EndOf.v.kind = "Some" /\ EndOf.v.v.tv = "DateTime"
    \/ StartOf.v.tv = "DateTime" /\ EndOf.v.kind = "Some" /\ EndOf.v.v.tv = "Date"

\* C7: every start/end/duration combination outside the table fails with
\* InvalidTimeRange.
C7_UnlistedFails == (Decoded /\ Unlisted) => FailsWith("InvalidTimeRange")

C7_Witness ==
    /\ Decoded
    /\ IsDateTime(StartOf.v, "Utc")
    /\ EndOf.v.kind = "Some" /\ EndOf.v.v.tv = "Date"
    /\ DurationOf.v.kind = "None"
    /\ FailsWith("InvalidTimeRange")

Mismatched ==
    /\ StartOf.v.tv = "DateTime"
    /\ EndOf.v.kind = "Some" /\ EndOf.v.v.tv = "DateTime"
    /\ StartOf.v.dt.tag # EndOf.v.v.dt.tag

\* C8: a DateTime start and a DateTime end of different variant tags never
\* yield a range; in the table's row (no duration) the failure is
\* InvalidDateTime.
C8_MismatchedVariants ==
    (Decoded /\ Mismatched)
        => /\ result.kind = "Err"
           /\ DurationOf.v.kind = "None" => FailsWith("InvalidDateTime")

C8_Witness ==
    /\ Decoded /\ Mismatched
    /\ StartOf.v.dt.tag = "TimeZone" /\ EndOf.v.v.dt.tag = "Utc"
    /\ DurationOf.v.kind = "None"
    /\ FailsWith("InvalidDateTime")

\* local - offset, with the offset section 4.3 resolves at that local time
Convert(tz, local) == local - ResolveOffset(tz, local)

\* C9: a DateTime start S with a duration D and no end yields S..S+D (Utc,
\* Floating), or for TimeZone(tzid) the DateTime range from the conversion of
\* S to the conversion of S+D, each by the offset resolved at its own time.
C9_StartPlusDuration ==
    (Decoded /\ StartOf.v.tv = "DateTime" /\ EndOf.v.kind = "None"
        /\ DurationOf.v.kind = "Some")
        => LET S == StartOf.v.dt.date_time
               D == DurationOf.v.v
               tzid == StartOf.v.dt.tzid
           IN
           /\ IsDateTime(StartOf.v, "Utc") => result = Ok(DateTimeRange(S, S + D))
           /\ IsDateTime(StartOf.v, "Floating")
                => result = Ok(FloatingDateTimeRange(S, S + D))
           /\ (IsDateTime(StartOf.v, "TimeZone") /\ tzid \in DOMAIN timezone_map
                /\ AnchorsUpTo(timezone_map[tzid], S) # {}
                /\ AnchorsUpTo(timezone_map[tzid], S + D) # {})
                => result = Ok(DateTimeRange(Convert(timezone_map[tzid], S),
                                             Convert(timezone_map[tzid], S + D)))

\* the builder field a well-formed fragment sets
FragField(frag) ==
    IF frag.key \in {"UNTIL", "COUNT"} THEN "limit"
    ELSE IF frag.key = "INTERVAL" THEN "interval"
    ELSE KeyField[frag.key]

WellFormed(frag) ==
    \/ frag.key = "UNTIL" /\ frag.val \in {"date", "utc_date_time"}
    \/ frag.key \in {"COUNT", "INTERVAL"} /\ frag.val \in {"digits", "wide_digits"}
    \/ frag.key \in DOMAIN KeyField /\ frag.val = "list"

HasDuplicate(frags) ==
    \E i, j \in DOMAIN frags :
        /\ i < j
        /\ WellFormed(frags[i]) /\ WellFormed(frags[j])
        /\ FragField(frags[i]) = FragField(frags[j])

\* C10: a recurrence rule in which two fragments set the same field (UNTIL
\* and COUNT both set the limit) fails to parse.
C10_DuplicateRejected ==
    (op = "recur" /\ input.kind = "Some" /\ HasDuplicate(input.v.frags))
        => result.kind = "Err"

\* whether the property carries a parameter of that name
HasParam(property, name) ==
    /\ property.params.kind = "Some"
    /\ \E i \in DOMAIN property.params.v : property.params.v[i].name = name

\* the first value of the property's first TZID parameter
TzidParam(property) ==
    LET params == property.params.v
        first == CHOOSE i \in DOMAIN params :
                    /\ params[i].name = "TZID"
                    /\ \A j \in DOMAIN params : params[j].name = "TZID" => i <= j
    IN  params[first].values[1]

HasTzid(property) ==
    /\ HasParam(property, "TZID")
    /\ \A i \in DOMAIN property.params.v :
            property.params.v[i].name = "TZID" => Len(property.params.v[i].values) > 0

\* C11: a date-time text decodes to Utc when it ends in 'Z' and the property
\* has no TZID parameter, to Floating when it has neither, to TimeZone
\* carrying the parameter's tzid when it has a TZID and no 'Z', and fails to
\* decode when it has both; Utc and Floating carry no tzid.
C11_VariantTag ==
    (op = "date_time" /\ input.value.kind = "Some"
        /\ Len(input.value.v) = 1 /\ input.value.v[1].shape = "date_time")
        => LET text == input.value.v[1] IN
           /\ (text.z /\ ~HasParam(input, "TZID")) => result = Ok(Utc(text.n))
           /\ (~text.z /\ ~HasParam(input, "TZID")) => result = Ok(Floating(text.n))
           /\ (~text.z /\ HasTzid(input))
                => result = Ok(TimeZone(text.n, TzidParam(input)))
           /\ (text.z /\ HasTzid(input)) => FailsWith("TypeDecode(DateTime)")
           /\ (result.kind = "Ok" /\ result.v.tag \in {"Utc", "Floating"})
                => result.v.tzid = ""

\* the i-th '/'-separated part of a period property, as a property of its own
PeriodPart(i) == Property(input.name, Some(<<input.value.v[i]>>), input.params)

\* C12: in a property without parameters, a period text of exactly two
\* '/'-separated parts whose left part is a DateTime decodes to start/end
\* when the right part is a DateTime and otherwise to start/duration when the
\* right part is a Duration; a text of any other number of parts fails to
\* decode.
C12_PeriodForms ==
    (op = "period" /\ input.value.kind = "Some" /\ input.params.kind = "None")
        => LET parts == input.value.v IN
           /\ (Len(parts) = 2 /\ IcalDateTime_try_from(PeriodPart(1)).kind = "Ok")
                => LET start == IcalDateTime_try_from(PeriodPart(1)).v
                       end == IcalDateTime_try_from(PeriodPart(2))
                       dur == duration(<<parts[2]>>)
                   IN
                   /\ end.kind = "Ok"
                        => result = Ok([period |-> "StartEnd", start |-> start,
                                        end |-> end.v])
                   /\ (end.kind = "Err" /\ dur.kind = "Ok")
                        => result = Ok([period |-> "StartDuration", start |-> start,
                                        duration |-> dur.v])
           /\ Len(parts) # 2 => result.kind = "Err"

\* C14: when two recurring transitions produce the same anchor and that
\* anchor is the latest one not after the resolved time, the offset of the
\* transition listed later is applied.
C14_LaterListedWins ==
    (op = "offset_time" /\ AllRecurring(input.tz)
        /\ AnchorsUpTo(input.tz, input.time) # {}
        /\ Cardinality(Owners(input.tz, input.time)) > 1)
        => ShiftedBy(ResolveOffset(input.tz, input.time))

\* a rule text whose first fragment is `first` and whose other fragments are
\* well formed, fit their integer types and set distinct fields
UntilFirst(text, val) ==
    /\ text.freq \in Frequencies
    /\ Len(text.frags) >= 1
    /\ text.frags[1].key = "UNTIL" /\ text.frags[1].val = val
    /\ \A i \in DOMAIN text.frags :
            i > 1 => (WellFormed(text.frags[i]) /\ text.frags[i].val # "wide_digits")
    /\ ~HasDuplicate(text.frags)

\* C15: a rule whose UNTIL value is a UTC date-time, alone or followed by
\* further fragments, parses into a descriptor limited by that instant; one
\* whose UNTIL value is a date parses into a descriptor limited by that date;
\* one whose UNTIL value is a date-time without 'Z' fails to parse.
C15_UntilForms ==
    (op = "recur" /\ input.kind = "Some")
        => LET text == input.v IN
           /\ UntilFirst(text, "utc_date_time")
                => /\ result.kind = "Ok"
                   /\ result.v.fields.limit = Some(Until("DateTime", text.frags[1].n))
           /\ UntilFirst(text, "date")
                => /\ result.kind = "Ok"
                   /\ result.v.fields.limit = Some(Until("Date", text.frags[1].n))
           /\ UntilFirst(text, "floating_date_time") => result.kind = "Err"

\* 23:59:59 of the local date of `local`
EndOfDay(local) == Day((local \div SecondsPerDay) + 1) - 1

\* C16: a TimeZone(tzid) start S with neither end nor duration yields the
\* DateTime range from the conversion of S to the conversion of 23:59:59 of
\* S's local date, both through the timezone registered under tzid.
C16_EndOfLocalDay ==
    (Decoded /\ IsDateTime(StartOf.v, "TimeZone")
        /\ EndOf.v.kind = "None" /\ DurationOf.v.kind = "None"
        /\ StartOf.v.dt.tzid \in DOMAIN timezone_map)
        => LET S == StartOf.v.dt.date_time
               tz == timezone_map[StartOf.v.dt.tzid]
           IN  (AnchorsUpTo(tz, S) # {} /\ AnchorsUpTo(tz, EndOfDay(S)) # {})
                => result = Ok(DateTimeRange(Convert(tz, S), Convert(tz, EndOfDay(S))))

\* C17: a TimeZone(t1) start S and a TimeZone(t2) end E with no duration
\* yield the DateTime range from S converted through the timezone registered
\* under t1 to E converted through the timezone registered under t2.
C17_IndependentTzids ==
    (Decoded /\ IsDateTime(StartOf.v, "TimeZone")
        /\ EndOf.v.kind = "Some" /\ IsDateTime(EndOf.v.v, "TimeZone")
        /\ DurationOf.v.kind = "None"
        /\ StartOf.v.dt.tzid \in DOMAIN timezone_map
        /\ EndOf.v.v.dt.tzid \in DOMAIN timezone_map)
        => LET S == StartOf.v.dt.date_time
               E == EndOf.v.v.dt.date_time
               tz1 == timezone_map[StartOf.v.dt.tzid]
               tz2 == timezone_map[EndOf.v.v.dt.tzid]
           IN  (AnchorsUpTo(tz1, S) # {} /\ AnchorsUpTo(tz2, E) # {})
                => result = Ok(DateTimeRange(Convert(tz1, S), Convert(tz2, E)))

\* the value of the block's last property of that name, None when the block
\* has no such property or the property has no value
RECURSIVE LastValue(_, _, _, _)
LastValue(props, name, i, value) ==
    IF i > Len(props) THEN value
    ELSE LastValue(props, name, i + 1, IF props[i].name = name THEN props[i].value ELSE value)

\* the block has no DTSTART, no TZOFFSETTO, or a DTSTART that is not a
\* Floating date-time (a Utc one, a date, other text)
LacksAnchorOrOffset(block) ==
    LET anchor == LastValue(block.properties, "DTSTART", 1, None)
        offset == LastValue(block.properties, "TZOFFSETTO", 1, None)
    IN  \/ anchor.kind = "None"
        \/ offset.kind = "None"
        \/ ~(date_time(anchor.v).kind = "Ok" /\ date_time(anchor.v).v.tag = "Floating")

\* C18: constructing a transition from a block that lacks a DTSTART, lacks a
\* TZOFFSETTO, or whose DTSTART is not Floating fails with InvalidTimezone,
\* and so does constructing a Timezone that encloses such a block.
C18_IncompleteBlockFails ==
    /\ (op = "transition" /\ LacksAnchorOrOffset(input)) => FailsWith("InvalidTimezone")
    /\ (op = "timezone"
        /\ \E i \in DOMAIN input.transitions : LacksAnchorOrOffset(input.transitions[i]))
        => FailsWith("InvalidTimezone")

\* the timezone has a transition whose recurrence sequence never ends
Unbounded(tz) ==
    \E i \in DOMAIN tz.transitions :
        /\ tz.transitions[i].r_rules.kind = "Some"
        /\ Len(tz.transitions[i].r_rules.v.rrule) > 0

\* C19: resolving an offset in a timezone with an unbounded recurrence
\* sequence ends, for every time, in a returned value or a failure.
C19_ReturnsOrFails ==
    (op = "offset_time" /\ Unbounded(input.tz)) => result.kind \in {"Ok", "Err"}

====
